---- MODULE Spec2Model ----
(***************************************************************************)
(* A model of stream.c: the OpenMP STREAM memory-bandwidth benchmark.      *)
(*                                                                         *)
(* main() is modelled as a state machine whose program counter pc walks    *)
(* through the source in order.  Every "#pragma omp parallel" region is a  *)
(* fork/join of nthreads workers (worker 0 is the encountering thread);    *)
(* each worker executes the region body one C statement at a time.         *)
(*                                                                         *)
(* The loop variable i is declared in main (line 124) and carries no       *)
(* private clause on any region, so it is shared by the team.  The         *)
(* unsynchronised accesses are a data race; the model covers these builds:  *)
(*   build = "mem"    : every statement loads/stores i in shared memory;   *)
(*   build = "reg"    : each worker keeps i in a register for the loop;    *)
(*   build = "packed" : as "mem", linked with an allocator that puts the   *)
(*                      blocks of a thread next to each other, without     *)
(*                      bookkeeping in between.                            *)
(***************************************************************************)
EXTENDS Integers, Sequences, FiniteSets, TLC

(***************************************************************************)
(* Bounds of the model and build configuration.                            *)
(***************************************************************************)
\* -DSTREAM_ARRAY_SIZE=<n> on the compile line (lines 46-48).
STREAM_ARRAY_SIZE == 3
\* -DNTIMES=<n> on the compile line (lines 59-66); 0 stands for "not given".
NTIMES_CONFIG == 4
\* Largest team the OpenMP runtime hands out (OMP_NUM_THREADS).
MaxThreads == 2
\* Elements (of BytesPerWord bytes) the heap can supply over a whole run.
HeapElems == 24
\* Significand bits of the scaled-down floating-point format of the timings.
MantBits == 3
\* Largest duration drawn for a timing table of the reducer specification.
MaxDur == 6
\* Clock units in a microsecond, for the calibration of the timer.
UnitsPerUsec == 4
\* Samples of the timer, counted from the start of the calibration, between
\* which the clock may advance by two steps of its resolution instead of one.
MaxJitter == 3

(***************************************************************************)
(* Program constants.                                                      *)
(***************************************************************************)
SCALAR == 3
M == 20
BytesPerWord == 8
INT_MAX == 2147483647
INT_MIN == -INT_MAX - 1
Limb == 65536

\* A preprocessor block that takes every value given on the compile line.
NTimesOf_raw(defined, n) == IF defined THEN n ELSE 10

\* Lines 59-66: the value of the macro NTIMES behind the preprocessor block,
\* when the compile line defines it to n (defined) or does not define it.
NTimesOf(defined, n) == IF defined /\ n > 1 THEN n ELSE 10

NTIMES == NTimesOf(NTIMES_CONFIG # 0, NTIMES_CONFIG)

Kernels == 0..3

(***************************************************************************)
(* unsigned long: 64 bits, kept as four 16-bit limbs, least significant    *)
(* first, so that 2^64 wrap-around is exact.                               *)
(***************************************************************************)
UL(n) == <<n % Limb, (n \div Limb) % Limb, 0, 0>>

ULONG_MAX == <<Limb - 1, Limb - 1, Limb - 1, Limb - 1>>

ULIsZero(v) == v = <<0, 0, 0, 0>>

\* v * 10 + d, with the carry out of the top limb reported as overflow.
ULMulAdd10(v, d) ==
    LET x1 == v[1] * 10 + d
        x2 == v[2] * 10 + (x1 \div Limb)
        x3 == v[3] * 10 + (x2 \div Limb)
        x4 == v[4] * 10 + (x3 \div Limb)
    IN  [val |-> <<x1 % Limb, x2 % Limb, x3 % Limb, x4 % Limb>>,
         ovf |-> x4 \div Limb > 0]

\* Two's complement negation modulo 2^64.
ULNeg(v) ==
    IF ULIsZero(v) THEN v
    ELSE LET y1 == (Limb - 1 - v[1]) + 1
             y2 == (Limb - 1 - v[2]) + (y1 \div Limb)
             y3 == (Limb - 1 - v[3]) + (y2 \div Limb)
             y4 == (Limb - 1 - v[4]) + (y3 \div Limb)
         IN  <<y1 % Limb, y2 % Limb, y3 % Limb, y4 % Limb>>

\* floor(v / n) for a small positive n, by long division on the limbs.
ULDiv(v, n) ==
    LET q4 == v[4] \div n
        x3 == (v[4] % n) * Limb + v[3]
        q3 == x3 \div n
        x2 == (x3 % n) * Limb + v[2]
        q2 == x2 \div n
        x1 == (x2 % n) * Limb + v[1]
        q1 == x1 \div n
    IN  <<q1, q2, q3, q4>>

ULFitsInt(v) == v[4] = 0 /\ v[3] = 0 /\ v[2] < Limb \div 2

ULToInt(v) == v[2] * Limb + v[1]

(***************************************************************************)
(* strtoul(argv[1], &argv[1], 10).  A string is a sequence of characters.  *)
(* Leading white space is skipped, one optional sign is accepted, then the *)
(* longest run of decimal digits is converted; no digits gives 0; a value  *)
(* above ULONG_MAX saturates; a leading '-' negates the value modulo 2^64. *)
(***************************************************************************)
Digits == <<"0", "1", "2", "3", "4", "5", "6", "7", "8", "9">>

IsDigit(ch) == \E d \in 1..10 : Digits[d] = ch

DigitVal(ch) == (CHOOSE d \in 1..10 : Digits[d] = ch) - 1

RECURSIVE SkipSpace(_)
SkipSpace(s) == IF s # <<>> /\ Head(s) \in {" ", "\t", "\n"}
                THEN SkipSpace(Tail(s)) ELSE s

RECURSIVE ParseDigits(_, _, _)
ParseDigits(s, acc, ovf) ==
    IF s = <<>> \/ ~IsDigit(Head(s))
    THEN [val |-> IF ovf THEN ULONG_MAX ELSE acc, ovf |-> ovf]
    ELSE LET r == ULMulAdd10(acc, DigitVal(Head(s)))
         IN  ParseDigits(Tail(s), r.val, ovf \/ r.ovf)

strtoul(str) ==
    LET s0  == SkipSpace(str)
        neg == s0 # <<>> /\ Head(s0) = "-"
        s1  == IF s0 # <<>> /\ Head(s0) \in {"-", "+"} THEN Tail(s0) ELSE s0
        r   == ParseDigits(s1, UL(0), FALSE)
    IN  IF neg /\ ~r.ovf THEN ULNeg(r.val) ELSE r.val

(***************************************************************************)
(* STREAM_TYPE (double) values.                                            *)
(*                                                                         *)
(* Buffer contents: every value the kernels produce from 1.0, 2.0, 0.0 and *)
(* SCALAR within the modelled iterations is a small non-negative integer   *)
(* and is exact in a double, so it is kept as an integer.  Memory returned *)
(* by malloc is uninitialised: its content is the indeterminate value      *)
(* Indet, which every arithmetic operation propagates.                     *)
(***************************************************************************)
Indet == -1

VMul(s, x) == IF x = Indet THEN Indet ELSE s * x

VAdd(x, y) == IF x = Indet \/ y = Indet THEN Indet ELSE x + y

(***************************************************************************)
(* Timings are doubles too, and there rounding matters: they are kept in a *)
(* binary floating-point format with MantBits significand bits, as         *)
(* non-negative integer multiples of the smallest unit.  FRound(n, d) is   *)
(* the representable value nearest to n / d, ties to even.                 *)
(***************************************************************************)
RECURSIVE Pow2(_)
Pow2(n) == IF n = 0 THEN 1 ELSE 2 * Pow2(n - 1)

RECURSIVE UlpOf(_, _, _)
UlpOf(n, d, u) == IF n < Pow2(MantBits) * u * d THEN u ELSE UlpOf(n, d, 2 * u)

FRound(n, d) ==
    LET u   == UlpOf(n, d, 1)
        du  == d * u
        fl  == n \div du
        rem == n % du
        m   == IF 2 * rem < du THEN fl
               ELSE IF 2 * rem > du THEN fl + 1
               ELSE IF fl % 2 = 0 THEN fl ELSE fl + 1
    IN  m * u

FAdd(x, y) == FRound(x + y, 1)

FSub(x, y) == FRound(x - y, 1)

FDiv(x, n) == FRound(x, n)

MIN(x, y) == IF x < y THEN x ELSE y

MAX(x, y) == IF x > y THEN x ELSE y

\* (double) of a size_t: the value rounded to 53 significant bits, ties to
\* even, as five limbs (rounding up can carry into 2^64).
RECURSIVE Log2(_)
Log2(n) == IF n < 2 THEN 0 ELSE 1 + Log2(n \div 2)

ULToDouble(v) ==
    IF v[4] < 32 THEN v \o <<0>>
    ELSE LET unit == Pow2(Log2(v[4]) - 4)
             rem  == v[1] % unit
             odd  == (v[1] \div unit) % 2 = 1
             up   == 2 * rem > unit \/ (2 * rem = unit /\ odd)
             y1   == v[1] - rem + (IF up THEN unit ELSE 0)
             y2   == v[2] + (y1 \div Limb)
             y3   == v[3] + (y2 \div Limb)
             y4   == v[4] + (y3 \div Limb)
         IN  <<y1 % Limb, y2 % Limb, y3 % Limb, y4 % Limb, y4 \div Limb>>

(***************************************************************************)
(* State.                                                                  *)
(***************************************************************************)
VARIABLES
    pc,                 \* position of the orchestrating thread in main
    argc, argv1,        \* the command line
    team,               \* team size the OpenMP runtime uses for this run
    build,              \* "mem", "reg" or "packed": see above
    heap,               \* elements the heap can still supply
    clock,              \* CLOCK_MONOTONIC, in units
    stream_array_size, nthreads, array_size,
    a, b, c,            \* thread id -> pointer to that thread's buffer
    i, k,               \* main's loop variables; i is shared with the team
    j,                  \* kernel of the current timed block (0..3)
    quantum, t,
    times, avgtime, mintime, maxtime,
    bytes,              \* bytes[4]: bytes each kernel moves, as a double
    bandwidth,          \* the bandwidth column of the report
    inpar,              \* a parallel region is executing
    wpc,                \* position of each worker inside the region
    ireg,               \* each worker's register copy of i ("reg" build)
    raced,              \* two workers used the shared i at overlapping times
    oob,                \* a buffer was indexed outside [0, array_size)
    iUsers,             \* workers that accessed the shared i in this region
    foreign,            \* a worker touched a buffer slot other than its own
    slotWrites,         \* number of stores into each slot of a, b, c
    kbegun, kdone,      \* timed kernels each worker has begun / finished
    wkern,              \* <<k, j>> of the timed kernel each worker last began
    exitCode, errPrinted,
    ci, t1, t2, timesfound, minDelta,   \* checktick's i and its locals
    res,                \* clock units between two readings of the timer
    samples             \* readings of the timer made by checktick

vars == <<pc, argc, argv1, team, build, heap, clock, stream_array_size,
          nthreads, array_size, a, b, c, i, k, j, quantum, t, times,
          avgtime, mintime, maxtime, bytes, bandwidth, inpar, wpc, ireg,
          raced, oob,
          iUsers, foreign, slotWrites, kbegun, kdone, wkern, exitCode,
          errPrinted, ci, t1, t2, timesfound, minDelta, res, samples>>

(***************************************************************************)
(* Command lines tried.  argc = 1 is "no argument"; argc = 3 is "two       *)
(* arguments", which line 127 treats like none.                            *)
(***************************************************************************)
Args == { <<"8">>, <<"0">>, <<"-", "5">>, <<"a", "b", "c">>,
          <<" ", "+", "1", "6", "x">>,
          <<"4", "2", "9", "4", "9", "6", "7", "2", "9", "6">> }

Inputs == {[argc |-> 1, argv1 |-> <<>>], [argc |-> 3, argv1 |-> <<"8">>]}
          \cup {[argc |-> 2, argv1 |-> s] : s \in Args}

Team == 0..(team - 1)

\* A line of the report that has not been printed.
NotPrinted == [cls |-> "none", val |-> <<>>]

\* A pointer: not yet assigned, NULL, or the block it points to.
Unset == [st |-> "unset", mem |-> <<>>]

NULL == [st |-> "null", mem |-> <<>>]

Block(n) == [st |-> "ok", mem |-> [x \in 1..n |-> Indet]]

\* The state after construction, for a build out of bs.
InitWith(bs) ==
    /\ pc = "parse"
    /\ \E in \in Inputs : argc = in.argc /\ argv1 = in.argv1
    /\ team \in 1..MaxThreads
    /\ build \in bs
    /\ heap = HeapElems
    /\ clock = 0
    /\ stream_array_size = UL(0)
    /\ nthreads = 0
    /\ array_size = 0
    /\ a = <<>> /\ b = <<>> /\ c = <<>>
    /\ i = 0 /\ k = 0 /\ j = 0
    /\ quantum = 0 /\ t = 0
    /\ times = [kn \in Kernels |-> [it \in 0..(NTIMES - 1) |-> Indet]]
    /\ avgtime = [kn \in Kernels |-> Indet]
    /\ mintime = [kn \in Kernels |-> Indet]
    /\ maxtime = [kn \in Kernels |-> Indet]
    /\ bytes = [kn \in Kernels |-> ULToDouble(UL(0))]
    /\ bandwidth = [kn \in Kernels |-> NotPrinted]
    /\ inpar = FALSE
    /\ wpc = [w \in Team |-> "idle"]
    /\ ireg = [w \in Team |-> 0]
    /\ raced = FALSE /\ oob = FALSE /\ foreign = FALSE
    /\ iUsers = {}
    /\ slotWrites = [w \in Team |-> [a |-> 0, b |-> 0, c |-> 0]]
    /\ kbegun = [w \in Team |-> 0]
    /\ kdone = [w \in Team |-> 0]
    /\ wkern = [w \in Team |-> <<0, 0>>]
    /\ exitCode = 0 /\ errPrinted = FALSE
    /\ ci = 0 /\ t1 = 0 /\ t2 = 0 /\ minDelta = 0
    /\ timesfound = [n \in 0..(M - 1) |-> Indet]
    /\ res = 1 /\ samples = 0

Init == InitWith({"mem", "reg"})

\* Frames.
tickVars == <<ci, t1, t2, timesfound, minDelta, res, samples>>
mainVars == <<argc, argv1, team, build>>
bufVars  == <<a, b, c>>
statVars == <<avgtime, mintime, maxtime, bytes, bandwidth>>
teamVars == <<inpar, wpc, ireg, iUsers>>
flagVars == <<raced, oob, foreign, slotWrites>>
histVars == <<kbegun, kdone, wkern>>

(***************************************************************************)
(* The orchestrating thread, lines 127-217.                                *)
(*                                                                         *)
(* A run in which two workers have raced on i has undefined behaviour; it  *)
(* is followed to the join of the region where that happened, where the    *)
(* effect on the buffers shows, and no further (guard ~raced).             *)
(***************************************************************************)
\* Lines 127-137.
Parse ==
    /\ pc = "parse"
    /\ IF argc = 1 \/ argc > 2
       THEN /\ stream_array_size' = UL(STREAM_ARRAY_SIZE)
            /\ pc' = "threads"
            /\ UNCHANGED <<exitCode, errPrinted>>
       ELSE /\ stream_array_size' = strtoul(argv1)
            /\ IF ULIsZero(strtoul(argv1))
               THEN /\ errPrinted' = TRUE
                    /\ exitCode' = -1
                    /\ pc' = "exit_error"
               ELSE /\ pc' = "threads"
                    /\ UNCHANGED <<exitCode, errPrinted>>
    /\ UNCHANGED <<mainVars, tickVars, histVars, heap, clock, nthreads, array_size, bufVars, i, k,
                   j, quantum, t, times, statVars, teamVars, flagVars>>

\* Lines 156-179: the team size is read by the master inside a region.
QueryThreads ==
    /\ pc = "threads"
    /\ nthreads' = team
    /\ pc' = "size"
    /\ UNCHANGED <<mainVars, tickVars, histVars, heap, clock, stream_array_size, array_size,
                   bufVars, i, k, j, quantum, t, times, statVars, teamVars,
                   flagVars, exitCode, errPrinted>>

\* (int) ((double) stream_array_size / (double) nthreads), line 182.  For
\* a value below 2^53 and a divisor of at most MaxThreads the double
\* quotient truncates to the exact floor; a quotient that does not fit an
\* int makes the conversion undefined (x86 yields INT_MIN, a saturating
\* conversion INT_MAX).
ToArraySize(v, n) ==
    IF ULFitsInt(ULDiv(v, n)) THEN {ULToInt(ULDiv(v, n))} ELSE {INT_MIN, INT_MAX}

\* Lines 182-183.
ComputeArraySize ==
    /\ pc = "size"
    /\ array_size' \in ToArraySize(stream_array_size, nthreads)
    /\ a' = [w \in 0..(nthreads - 1) |-> Unset]
    /\ b' = [w \in 0..(nthreads - 1) |-> Unset]
    /\ c' = [w \in 0..(nthreads - 1) |-> Unset]
    /\ pc' = "alloc"
    /\ UNCHANGED <<mainVars, tickVars, histVars, heap, clock, stream_array_size, nthreads, i, k,
                   j, quantum, t, times, statVars, teamVars, flagVars,
                   exitCode, errPrinted>>

(***************************************************************************)
(* #pragma omp parallel: fork and join (implicit barrier at the end).      *)
(***************************************************************************)
Regions == {"alloc", "init", "warm", "kernel"}

After(r) == CASE r = "alloc"  -> "calibrate"
              [] r = "init"   -> "warm_t0"
              [] r = "warm"   -> "warm_t1"
              [] r = "kernel" -> "kend"

\* Variants of the barrier that let the master go on too early.
AllAtBarrier_any == \E w \in Team : wpc[w] = "end"

AllAtBarrier_master == wpc[0] = "end"

\* The implicit barrier at the end of a parallel region.
AllAtBarrier == \A w \in Team : wpc[w] = "end"

Fork ==
    /\ pc \in Regions /\ ~inpar /\ ~raced
    /\ inpar' = TRUE
    /\ wpc' = [w \in Team |-> "start"]
    /\ iUsers' = {}
    /\ UNCHANGED <<pc, mainVars, tickVars, histVars, heap, clock, stream_array_size, nthreads,
                   array_size, bufVars, i, k, j, quantum, t, times, statVars,
                   ireg, flagVars, exitCode, errPrinted>>

Join ==
    /\ pc \in Regions /\ inpar
    /\ AllAtBarrier
    /\ inpar' = FALSE
    /\ pc' = After(pc)
    /\ UNCHANGED <<mainVars, tickVars, histVars, heap, clock, stream_array_size, nthreads,
                   array_size, bufVars, i, k, j, quantum, t, times, statVars,
                   wpc, ireg, iUsers, flagVars, exitCode, errPrinted>>

(***************************************************************************)
(* Workers.                                                                *)
(***************************************************************************)
\* A runtime that hands every worker the thread number 0.
omp_get_thread_num_zero(w) == 0

\* int tid = omp_get_thread_num();  (lines 186, 222, 236, 262, ...)
omp_get_thread_num(w) == w

\* malloc(sizeof(STREAM_TYPE) * array_size): the int is converted to
\* size_t, so a negative array_size asks for more than any heap holds.
malloc(n) == IF n < 0 \/ n > heap THEN NULL ELSE Block(n)

\* The allocation region, lines 184-190: three statements per worker.
AllocSlot(p) == CASE p = "start" -> "a" [] p = "mb" -> "b" [] p = "mc" -> "c"

AllocNext(p) == CASE p = "start" -> "mb" [] p = "mb" -> "mc" [] p = "mc" -> "end"

WMalloc(w) ==
    /\ pc = "alloc" /\ inpar
    /\ wpc[w] \in {"start", "mb", "mc"}
    /\ LET tid  == omp_get_thread_num(w)
           slot == AllocSlot(wpc[w])
           ptr  == malloc(array_size)
       IN  /\ a' = IF slot = "a" THEN [a EXCEPT ![tid] = ptr] ELSE a
           /\ b' = IF slot = "b" THEN [b EXCEPT ![tid] = ptr] ELSE b
           /\ c' = IF slot = "c" THEN [c EXCEPT ![tid] = ptr] ELSE c
           /\ heap' = IF ptr.st = "ok" THEN heap - array_size ELSE heap
           /\ slotWrites' = [slotWrites EXCEPT ![tid][slot] = @ + 1]
           /\ foreign' = (foreign \/ tid # w)
    /\ wpc' = [wpc EXCEPT ![w] = AllocNext(wpc[w])]
    /\ UNCHANGED <<pc, mainVars, tickVars, histVars, clock, stream_array_size, nthreads,
                   array_size, i, k, j, quantum, t, times, statVars, inpar,
                   ireg, iUsers, raced, oob, exitCode, errPrinted>>

\* The loop regions: for (i = 0; i < array_size; i++) <body>.
LoopRegions == {"init", "warm", "kernel"}

\* The loop variable i of main lives in memory and is shared by the team.
SharedI == build # "reg"

ReadI(w) == IF SharedI THEN i ELSE ireg[w]

\* The worker is between the first and the last statement of its loop.
Active(w) == wpc[w] \notin {"idle", "start", "end"}

\* tid = omp_get_thread_num(); i = 0
WStart(w) ==
    /\ pc \in LoopRegions /\ inpar
    /\ wpc[w] = "start"
    /\ IF SharedI
       THEN i' = 0 /\ UNCHANGED ireg
       ELSE ireg' = [ireg EXCEPT ![w] = 0] /\ UNCHANGED i
    /\ iUsers' = iUsers \cup {w}
    /\ raced' = (raced \/ (SharedI /\ \E u \in Team \ {w} : Active(u)))
    /\ wpc' = [wpc EXCEPT ![w] = "test"]
    /\ IF pc = "kernel"
       THEN /\ kbegun' = [kbegun EXCEPT ![w] = @ + 1]
            /\ wkern' = [wkern EXCEPT ![w] = <<k, j>>]
       ELSE UNCHANGED <<kbegun, wkern>>
    /\ UNCHANGED <<pc, mainVars, tickVars, kdone, heap, clock, stream_array_size,
                   nthreads, array_size, bufVars, k, j, quantum, t, times,
                   statVars, inpar, oob, foreign, slotWrites, exitCode,
                   errPrinted>>

\* i < array_size
WTest(w) ==
    /\ pc \in LoopRegions /\ inpar
    /\ wpc[w] = "test"
    /\ IF ReadI(w) < array_size
       THEN wpc' = [wpc EXCEPT ![w] = "s1"] /\ UNCHANGED i
       ELSE /\ wpc' = [wpc EXCEPT ![w] = "end"]
            /\ i' = ReadI(w)
    /\ kdone' = IF pc = "kernel" /\ ~(ReadI(w) < array_size)
                THEN [kdone EXCEPT ![w] = @ + 1] ELSE kdone
    /\ UNCHANGED <<pc, mainVars, tickVars, kbegun, wkern, heap, clock, stream_array_size, nthreads,
                   array_size, bufVars, k, j, quantum, t, times, statVars,
                   inpar, ireg, iUsers, flagVars, exitCode, errPrinted>>

\* i++
WInc(w) ==
    /\ pc \in LoopRegions /\ inpar
    /\ wpc[w] = "inc"
    /\ IF SharedI
       THEN i' = i + 1 /\ UNCHANGED ireg
       ELSE ireg' = [ireg EXCEPT ![w] = @ + 1] /\ UNCHANGED i
    /\ wpc' = [wpc EXCEPT ![w] = "test"]
    /\ UNCHANGED <<pc, mainVars, tickVars, histVars, heap, clock, stream_array_size, nthreads,
                   array_size, bufVars, k, j, quantum, t, times, statVars,
                   inpar, iUsers, flagVars, exitCode, errPrinted>>

\* The statements of the loop bodies.
StmtNo(p) == CASE p = "s1" -> 1 [] p = "s2" -> 2 [] p = "s3" -> 3

StmtNext(r, p) == IF r = "init" /\ p = "s1" THEN "s2"
                  ELSE IF r = "init" /\ p = "s2" THEN "s3"
                  ELSE "inc"

\* The buffer a statement stores into.
Dest(r, kn, s) ==
    CASE r = "init"   -> <<"a", "b", "c">>[s]
      [] r = "warm"   -> "a"
      [] r = "kernel" -> <<"c", "b", "c", "a">>[kn + 1]

\* The buffers a statement loads from.
Srcs(r, kn) ==
    CASE r = "init"   -> {}
      [] r = "warm"   -> {"a"}
      [] r = "kernel" -> <<{"a"}, {"c"}, {"a", "b"}, {"b", "c"}>>[kn + 1]

InRange(idx) == 0 <= idx /\ idx < array_size

\* The value the statement stores, from elements x, y, z of a, b, c.
Rhs(r, kn, s, x, y, z) ==
    CASE r = "init"   -> <<1, 2, 0>>[s]
      [] r = "warm"   -> VMul(2, x)
      [] r = "kernel" ->
           CASE kn = 0 -> x
             [] kn = 1 -> VMul(SCALAR, z)
             [] kn = 2 -> VAdd(x, y)
             [] kn = 3 -> VAdd(y, VMul(SCALAR, z))

Elem(p, idx) == IF p.st = "ok" /\ InRange(idx) THEN p.mem[idx + 1] ELSE Indet

\* The blocks a store behind the end of block nm of thread tid can reach:
\* a thread allocates its a, b and c in this order (lines 187-189), so its
\* b can lie right behind its a and its c right behind its b.
StrayBlocks(tid, nm) ==
    CASE nm = "a" -> {<<tid, "b">>}
      [] nm = "b" -> {<<tid, "c">>}
      [] nm = "c" -> {}

\* A store of v that lands off elements into block blk.
StrayStore(blk, off, v) ==
    LET u  == blk[1]
        nm == blk[2]
        p  == [a |-> a[u], b |-> b[u], c |-> c[u]][nm]
    IN  /\ p.st = "ok" /\ InRange(off)
        /\ a' = IF nm = "a" THEN [a EXCEPT ![u].mem[off + 1] = v] ELSE a
        /\ b' = IF nm = "b" THEN [b EXCEPT ![u].mem[off + 1] = v] ELSE b
        /\ c' = IF nm = "c" THEN [c EXCEPT ![u].mem[off + 1] = v] ELSE c

WBody(w) ==
    /\ pc \in LoopRegions /\ inpar
    /\ wpc[w] \in {"s1", "s2", "s3"}
    /\ LET tid  == omp_get_thread_num(w)
           idx  == ReadI(w)
           s    == StmtNo(wpc[w])
           d    == Dest(pc, j, s)
           ptr  == [a |-> a[tid], b |-> b[tid], c |-> c[tid]]
           v    == Rhs(pc, j, s, Elem(a[tid], idx), Elem(b[tid], idx),
                       Elem(c[tid], idx))
           next == [wpc EXCEPT ![w] = StmtNext(pc, wpc[w])]
       IN  IF \E nm \in Srcs(pc, j) \cup {d} : ptr[nm].st # "ok"
           THEN \* a null (or unset) pointer is dereferenced: SIGSEGV
                /\ pc' = "crashed" /\ exitCode' = 139
                /\ UNCHANGED <<bufVars, wpc, oob, foreign>>
           ELSE IF ~InRange(idx)
           THEN \* access behind the end of the block: the store lands in
                \* the allocator's bookkeeping, or the process is killed,
                \* or, with the packed allocator, the store lands in the
                \* block that follows in the heap
                /\ oob' = TRUE
                /\ \/ /\ wpc' = next
                      /\ UNCHANGED <<pc, exitCode, bufVars>>
                   \/ /\ pc' = "crashed" /\ exitCode' = 139
                      /\ UNCHANGED <<wpc, bufVars>>
                   \/ /\ build = "packed"
                      /\ wpc' = next
                      /\ UNCHANGED <<pc, exitCode>>
                      /\ \E blk \in StrayBlocks(tid, d) :
                            StrayStore(blk, idx - array_size, v)
                /\ UNCHANGED foreign
           ELSE /\ a' = IF d = "a" THEN [a EXCEPT ![tid].mem[idx + 1] = v] ELSE a
                /\ b' = IF d = "b" THEN [b EXCEPT ![tid].mem[idx + 1] = v] ELSE b
                /\ c' = IF d = "c" THEN [c EXCEPT ![tid].mem[idx + 1] = v] ELSE c
                /\ foreign' = (foreign \/ tid # w)
                /\ wpc' = next
                /\ UNCHANGED <<pc, oob, exitCode>>
    /\ UNCHANGED <<mainVars, tickVars, histVars, heap, clock, stream_array_size, nthreads,
                   array_size, i, k, j, quantum, t, times, statVars, inpar,
                   ireg, iUsers, raced, slotWrites, errPrinted>>

(***************************************************************************)
(* The orchestrating thread, lines 204-294: calibration, warm-up and the   *)
(* timed loop.                                                             *)
(***************************************************************************)
\* CLOCK_MONOTONIC is monotonic and increasing.  Only the orchestrating
\* thread reads it; in a run of main every reading finds it one unit later
\* than the reading before.  (The reducer is also run on freely drawn
\* durations, see SpecStats.)
Ticks == {clock + 1}

\* mysecond(), lines 371-376, when the clock shows now.
mysecond(now) == FRound(now, 1)

\* Values checktick() hands back (lines 341-369).
CheckTickResults == 0..1

\* Lines 204-219.
Calibrate ==
    /\ pc = "calibrate" /\ ~raced
    /\ \E q \in CheckTickResults : quantum' = IF q >= 1 THEN q ELSE 1
    /\ clock' \in Ticks
    /\ pc' = "init"
    /\ UNCHANGED <<mainVars, tickVars, histVars, heap, stream_array_size, nthreads, array_size,
                   bufVars, i, k, j, t, times, statVars, teamVars, flagVars,
                   exitCode, errPrinted>>

\* double t = mysecond();  line 233.
WarmStart ==
    /\ pc = "warm_t0" /\ ~raced
    /\ clock' \in Ticks
    /\ t' = mysecond(clock')
    /\ pc' = "warm"
    /\ UNCHANGED <<mainVars, tickVars, histVars, heap, stream_array_size, nthreads, array_size,
                   bufVars, i, k, j, quantum, times, statVars, teamVars,
                   flagVars, exitCode, errPrinted>>

\* t = 1.0E6 * (mysecond() - t);  k = 0;  lines 240-257.
WarmEnd ==
    /\ pc = "warm_t1" /\ ~raced
    /\ clock' \in Ticks
    /\ t' = FSub(mysecond(clock'), t)
    /\ k' = 0 /\ j' = 0
    /\ pc' = "kstart"
    /\ UNCHANGED <<mainVars, tickVars, histVars, heap, stream_array_size, nthreads, array_size,
                   bufVars, i, quantum, times, statVars, teamVars, flagVars,
                   exitCode, errPrinted>>

\* times[j][k] = mysecond();  lines 259, 268, 277, 286.
KStart ==
    /\ pc = "kstart" /\ ~raced
    /\ clock' \in Ticks
    /\ times' = [times EXCEPT ![j][k] = mysecond(clock')]
    /\ pc' = "kernel"
    /\ UNCHANGED <<mainVars, tickVars, histVars, heap, stream_array_size, nthreads, array_size,
                   bufVars, i, k, j, quantum, t, statVars, teamVars, flagVars,
                   exitCode, errPrinted>>

\* times[j][k] = mysecond() - times[j][k];  lines 266, 275, 284, 293, and
\* the step to the next kernel or the next iteration (line 257).
KEnd ==
    /\ pc = "kend" /\ ~raced
    /\ clock' \in Ticks
    /\ times' = [times EXCEPT ![j][k] = FSub(mysecond(clock'), @)]
    /\ IF j < 3
       THEN j' = j + 1 /\ k' = k /\ pc' = "kstart"
       ELSE /\ j' = 0 /\ k' = k + 1
            /\ pc' = IF k + 1 < NTIMES THEN "kstart" ELSE "reduce"
    /\ UNCHANGED <<mainVars, tickVars, histVars, heap, stream_array_size, nthreads, array_size,
                   bufVars, i, quantum, t, statVars, teamVars, flagVars,
                   exitCode, errPrinted>>

(***************************************************************************)
(* The reducer, lines 296-316.                                             *)
(***************************************************************************)
\* A reducer that lets the first iteration into the statistics.
StatSeed_first(kn) == times[kn][0]

\* The value the three statistics start from: times[i][1], lines 301-303.
StatSeed(kn) == times[kn][1]

\* Lines 299-304, and k = 2 of line 305.
ReduceInit ==
    /\ pc = "reduce"
    /\ avgtime' = [kn \in Kernels |-> StatSeed(kn)]
    /\ mintime' = [kn \in Kernels |-> StatSeed(kn)]
    /\ maxtime' = [kn \in Kernels |-> StatSeed(kn)]
    /\ i' = 4 /\ k' = 2
    /\ pc' = IF 2 < NTIMES THEN "reduce_loop" ELSE "reduce_avg"
    /\ UNCHANGED <<mainVars, tickVars, histVars, heap, clock, stream_array_size, nthreads,
                   array_size, bufVars, j, quantum, t, times, bytes, bandwidth,
                   teamVars,
                   flagVars, exitCode, errPrinted>>

\* One iteration of the loop of lines 305-314.
ReduceStep ==
    /\ pc = "reduce_loop"
    /\ avgtime' = [kn \in Kernels |-> FAdd(avgtime[kn], times[kn][k])]
    /\ mintime' = [kn \in Kernels |-> MIN(mintime[kn], times[kn][k])]
    /\ maxtime' = [kn \in Kernels |-> MAX(maxtime[kn], times[kn][k])]
    /\ i' = 4 /\ k' = k + 1
    /\ pc' = IF k + 1 < NTIMES THEN "reduce_loop" ELSE "reduce_avg"
    /\ UNCHANGED <<mainVars, tickVars, histVars, heap, clock, stream_array_size, nthreads,
                   array_size, bufVars, j, quantum, t, times, bytes, bandwidth,
                   teamVars,
                   flagVars, exitCode, errPrinted>>

\* Lines 315-316.
ReduceAvg ==
    /\ pc = "reduce_avg"
    /\ avgtime' = [kn \in Kernels |-> FDiv(avgtime[kn], NTIMES - 1)]
    /\ i' = 4
    /\ pc' = "report"
    /\ UNCHANGED <<mainVars, tickVars, histVars, heap, clock, stream_array_size, nthreads,
                   array_size, bufVars, k, j, quantum, t, times, mintime,
                   maxtime, bytes, bandwidth, teamVars, flagVars, exitCode,
                   errPrinted>>

(***************************************************************************)
(* The report, lines 318-337.                                              *)
(***************************************************************************)
\* An int converted to size_t (two's complement, 64 bits).
ULOfInt(n) ==
    IF n >= 0 THEN UL(n)
    ELSE LET v == UL(-(n + 1))
         IN  <<Limb - 1 - v[1], Limb - 1 - v[2], Limb - 1, Limb - 1>>

\* v * m modulo 2^64, for a small non-negative m.
ULMul(v, m) ==
    LET x1 == v[1] * m
        x2 == v[2] * m + (x1 \div Limb)
        x3 == v[3] * m + (x2 \div Limb)
        x4 == v[4] * m + (x3 \div Limb)
    IN  <<x1 % Limb, x2 % Limb, x3 % Limb, x4 % Limb>>

\* Quotient and remainder of a limb sequence by a small positive n.
RECURSIVE LimbDiv(_, _, _)
LimbDiv(v, n, carry) ==
    IF v = <<>> THEN [q |-> <<>>, r |-> carry]
    ELSE LET x    == carry * Limb + v[Len(v)]
             rest == LimbDiv(SubSeq(v, 1, Len(v) - 1), n, x % n)
         IN  [q |-> Append(rest.q, x \div n), r |-> rest.r]

RECURSIVE LimbInc(_)
LimbInc(v) ==
    IF v = <<>> THEN <<>>
    ELSE IF v[1] + 1 < Limb THEN <<v[1] + 1>> \o Tail(v)
    ELSE <<0>> \o LimbInc(Tail(v))

\* The double quotient x / y of the report, line 329, for x a double holding
\* an integer and y a timing: y = 0 gives NaN for x = 0 and infinity
\* otherwise; else the quotient to the nearest unit, ties to even.  (The
\* divisions by 1024. only change the exponent; the unit is bytes per clock
\* unit, scaled by 2^-20.)
Quotient(x, y) ==
    IF y = Indet THEN [cls |-> "indet", val |-> <<>>]
    ELSE IF y = 0
    THEN [cls |-> IF x = <<0, 0, 0, 0, 0>> THEN "nan" ELSE "inf", val |-> <<>>]
    ELSE LET d  == LimbDiv(x, y, 0)
             up == 2 * d.r > y \/ (2 * d.r = y /\ d.q[1] % 2 = 1)
         IN  [cls |-> "num", val |-> IF up THEN LimbInc(d.q) ELSE d.q]

\* Arrays moved by a kernel: 2 for Copy and Scale, 3 for Add and Triad.
Arrays(kn) == IF kn < 2 THEN 2 ELSE 3

\* bytes[kn] as computed by lines 319-322: the product is formed in size_t
\* (array_size and nthreads are converted from int) and then converted to
\* double.
BytesMoved(kn) ==
    ULToDouble(ULMul(ULMul(ULOfInt(array_size), Arrays(kn) * BytesPerWord),
                     nthreads))

\* The time the bandwidth column is computed from, line 329.
ReportTime(kn) == mintime[kn]

Report ==
    /\ pc = "report"
    /\ bytes' = [kn \in Kernels |-> BytesMoved(kn)]
    /\ bandwidth' = [kn \in Kernels |-> Quotient(BytesMoved(kn), ReportTime(kn))]
    /\ i' = 4
    /\ exitCode' = 0
    /\ pc' = "done"
    /\ UNCHANGED <<mainVars, tickVars, histVars, heap, clock, stream_array_size, nthreads,
                   array_size, bufVars, k, j, quantum, t, times, avgtime,
                   mintime, maxtime, teamVars, flagVars, errPrinted>>

(***************************************************************************)
(* The program.                                                            *)
(***************************************************************************)
Next ==
    \/ Parse
    \/ QueryThreads
    \/ ComputeArraySize
    \/ Fork
    \/ Join
    \/ \E w \in Team : WMalloc(w)
    \/ \E w \in Team : WStart(w)
    \/ \E w \in Team : WTest(w)
    \/ \E w \in Team : WBody(w)
    \/ \E w \in Team : WInc(w)
    \/ Calibrate
    \/ WarmStart
    \/ WarmEnd
    \/ KStart
    \/ KEnd
    \/ ReduceInit
    \/ ReduceStep
    \/ ReduceAvg
    \/ Report

Spec == Init /\ [][Next]_vars

(***************************************************************************)
(* The reducer and the report on their own: they read nothing but the      *)
(* timing table, so they are also run from the end of the timed loop of a  *)
(* single-threaded run without argument, with the durations the timer can  *)
(* have produced drawn from Durs.                                          *)
(***************************************************************************)
Durs == {FRound(d, 1) : d \in {0, MaxDur - 1, MaxDur}}

\* One Copy, Scale, Add, Triad pass over an element <<a, b, c>>.
OnePass(e) ==
    LET c1 == Rhs("kernel", 0, 1, e[1], e[2], e[3])
        b1 == Rhs("kernel", 1, 1, e[1], e[2], c1)
        c2 == Rhs("kernel", 2, 1, e[1], b1, c1)
        a1 == Rhs("kernel", 3, 1, e[1], b1, c2)
    IN  <<a1, b1, c2>>

RECURSIVE Passes(_, _)
Passes(e, n) == IF n = 0 THEN e ELSE Passes(OnePass(e), n - 1)

\* An element after initialization, warm-up and the NTIMES iterations.
FinalElem == Passes(<<Rhs("warm", 0, 1, 1, 2, 0), 2, 0>>, NTIMES)

InitStats ==
    /\ pc = "reduce"
    /\ argc = 1 /\ argv1 = <<>>
    /\ team = 1
    /\ build = "reg"
    /\ heap = HeapElems - 3 * STREAM_ARRAY_SIZE
    /\ clock = 4 * NTIMES * MaxDur
    /\ stream_array_size = UL(STREAM_ARRAY_SIZE)
    /\ nthreads = 1
    /\ array_size = STREAM_ARRAY_SIZE
    /\ a = [w \in {0} |-> [st |-> "ok",
                            mem |-> [x \in 1..STREAM_ARRAY_SIZE |-> FinalElem[1]]]]
    /\ b = [w \in {0} |-> [st |-> "ok",
                            mem |-> [x \in 1..STREAM_ARRAY_SIZE |-> FinalElem[2]]]]
    /\ c = [w \in {0} |-> [st |-> "ok",
                            mem |-> [x \in 1..STREAM_ARRAY_SIZE |-> FinalElem[3]]]]
    /\ i = STREAM_ARRAY_SIZE /\ k = NTIMES /\ j = 0
    /\ quantum = 1 /\ t = 0
    /\ \E row \in [0..(NTIMES - 1) -> Durs] :
          times = [kn \in Kernels |->
                     [it \in 0..(NTIMES - 1) |-> row[(it + kn) % NTIMES]]]
    /\ avgtime = [kn \in Kernels |-> Indet]
    /\ mintime = [kn \in Kernels |-> Indet]
    /\ maxtime = [kn \in Kernels |-> Indet]
    /\ bytes = [kn \in Kernels |-> ULToDouble(UL(0))]
    /\ bandwidth = [kn \in Kernels |-> NotPrinted]
    /\ inpar = FALSE
    /\ wpc = [w \in {0} |-> "end"]
    /\ ireg = [w \in {0} |-> STREAM_ARRAY_SIZE]
    /\ raced = FALSE /\ oob = FALSE /\ foreign = FALSE
    /\ iUsers = {0}
    /\ slotWrites = [w \in {0} |-> [a |-> 1, b |-> 1, c |-> 1]]
    /\ kbegun = [w \in {0} |-> 4 * NTIMES]
    /\ kdone = [w \in {0} |-> 4 * NTIMES]
    /\ wkern = [w \in {0} |-> <<NTIMES - 1, 3>>]
    /\ exitCode = 0 /\ errPrinted = FALSE
    /\ ci = 0 /\ t1 = 0 /\ t2 = 0 /\ minDelta = 0
    /\ timesfound = [n \in 0..(M - 1) |-> Indet]
    /\ res = 1 /\ samples = 0

NextStats ==
    \/ ReduceInit
    \/ ReduceStep
    \/ ReduceAvg
    \/ Report

SpecStats == InitStats /\ [][NextStats]_vars

(***************************************************************************)
(* checktick(), lines 341-369, and its call in main, lines 204-215, on     *)
(* their own: from the join of the allocation region of a single-threaded  *)
(* run without argument, for timers of several resolutions.  The timer is  *)
(* monotonic and keeps increasing: between two readings the clock advances *)
(* by its resolution res, or by twice that during the first MaxJitter      *)
(* readings.                                                               *)
(***************************************************************************)
\* Resolutions of the timer, in clock units: the unit, one microsecond, a
\* little more, and a little more than a second.
Resolutions == {1, UnitsPerUsec, UnitsPerUsec + 1, 1000001 * UnitsPerUsec}

\* What the clock can show at the next reading.
TickSamples ==
    {clock + res} \cup (IF samples < MaxJitter THEN {clock + 2 * res} ELSE {})

\* A loop that takes the first sample as a tick.
TickReached_first(d) == TRUE

\* A loop that takes a sample half a microsecond later as a tick.
TickReached_half(d) == ~(2 * d < UnitsPerUsec)

\* The exit test of the loop of line 351: !((t2 - t1) < 1.0E-6).
TickReached(d) == ~(d < UnitsPerUsec)

\* (int)(1.0E6 * d): seconds to microseconds is a change of unit here, and
\* the conversion to int truncates toward zero.
ToUsec(d) == IF d >= 0 THEN d \div UnitsPerUsec ELSE -((-d) \div UnitsPerUsec)

\* t1 = mysecond();  line 350.
CtRef ==
    /\ pc = "ct_t1"
    /\ clock' \in TickSamples
    /\ samples' = samples + 1
    /\ t1' = mysecond(clock')
    /\ pc' = "ct_t2"
    /\ UNCHANGED <<mainVars, histVars, heap, stream_array_size, nthreads,
                   array_size, bufVars, i, k, j, quantum, t, times, statVars,
                   teamVars, flagVars, exitCode, errPrinted, ci, t2,
                   timesfound, minDelta, res>>

\* One turn of while(((t2 = mysecond()) - t1) < 1.0E-6); and, when it ends,
\* timesfound[i] = t1 = t2; i++ (lines 348-353) and minDelta = 1000000;
\* i = 1 behind the loop (lines 361-362).
CtPoll ==
    /\ pc = "ct_t2"
    /\ clock' \in TickSamples
    /\ samples' = samples + 1
    /\ t2' = mysecond(clock')
    /\ IF TickReached(FSub(t2', t1))
       THEN /\ timesfound' = [timesfound EXCEPT ![ci] = t2']
            /\ t1' = t2'
            /\ IF ci + 1 < M
               THEN ci' = ci + 1 /\ pc' = "ct_t1" /\ UNCHANGED minDelta
               ELSE ci' = 1 /\ pc' = "ct_min" /\ minDelta' = 1000000
       ELSE UNCHANGED <<pc, ci, t1, timesfound, minDelta>>
    /\ UNCHANGED <<mainVars, histVars, heap, stream_array_size, nthreads,
                   array_size, bufVars, i, k, j, quantum, t, times, statVars,
                   teamVars, flagVars, exitCode, errPrinted, res>>

\* One iteration of the loop of lines 362-366.
CtMin ==
    /\ pc = "ct_min"
    /\ LET Delta == ToUsec(FSub(timesfound[ci], timesfound[ci - 1]))
       IN  minDelta' = MIN(minDelta, MAX(Delta, 0))
    /\ ci' = ci + 1
    /\ pc' = IF ci + 1 < M THEN "ct_min" ELSE "ct_ret"
    /\ UNCHANGED <<mainVars, histVars, heap, clock, stream_array_size,
                   nthreads, array_size, bufVars, i, k, j, quantum, t, times,
                   statVars, teamVars, flagVars, exitCode, errPrinted, t1, t2,
                   timesfound, res, samples>>

\* return(minDelta), line 368, into lines 205-215 of main.
CtReturn ==
    /\ pc = "ct_ret"
    /\ quantum' = IF minDelta >= 1 THEN minDelta ELSE 1
    /\ pc' = "init"
    /\ UNCHANGED <<mainVars, tickVars, histVars, heap, clock,
                   stream_array_size, nthreads, array_size, bufVars, i, k, j,
                   t, times, statVars, teamVars, flagVars, exitCode,
                   errPrinted>>

InitTick ==
    /\ pc = "ct_t1"
    /\ argc = 1 /\ argv1 = <<>>
    /\ team = 1
    /\ build = "reg"
    /\ heap = HeapElems - 3 * STREAM_ARRAY_SIZE
    /\ clock \in 0..1
    /\ stream_array_size = UL(STREAM_ARRAY_SIZE)
    /\ nthreads = 1
    /\ array_size = STREAM_ARRAY_SIZE
    /\ a = [w \in {0} |-> Block(STREAM_ARRAY_SIZE)]
    /\ b = [w \in {0} |-> Block(STREAM_ARRAY_SIZE)]
    /\ c = [w \in {0} |-> Block(STREAM_ARRAY_SIZE)]
    /\ i = 0 /\ k = 0 /\ j = 0
    /\ quantum = 0 /\ t = 0
    /\ times = [kn \in Kernels |-> [it \in 0..(NTIMES - 1) |-> Indet]]
    /\ avgtime = [kn \in Kernels |-> Indet]
    /\ mintime = [kn \in Kernels |-> Indet]
    /\ maxtime = [kn \in Kernels |-> Indet]
    /\ bytes = [kn \in Kernels |-> ULToDouble(UL(0))]
    /\ bandwidth = [kn \in Kernels |-> NotPrinted]
    /\ inpar = FALSE
    /\ wpc = [w \in {0} |-> "end"]
    /\ ireg = [w \in {0} |-> 0]
    /\ raced = FALSE /\ oob = FALSE /\ foreign = FALSE
    /\ iUsers = {}
    /\ slotWrites = [w \in {0} |-> [a |-> 1, b |-> 1, c |-> 1]]
    /\ kbegun = [w \in {0} |-> 0]
    /\ kdone = [w \in {0} |-> 0]
    /\ wkern = [w \in {0} |-> <<0, 0>>]
    /\ exitCode = 0 /\ errPrinted = FALSE
    /\ ci = 0 /\ t1 = 0 /\ t2 = 0 /\ minDelta = 0
    /\ timesfound = [n \in 0..(M - 1) |-> Indet]
    /\ res \in Resolutions
    /\ samples = 0

NextTick ==
    \/ CtRef
    \/ CtPoll
    \/ CtMin
    \/ CtReturn

SpecTick == InitTick /\ [][NextTick]_vars /\ WF_vars(NextTick)

(***************************************************************************)
(* The Copy region (lines 260-265) run twice in a row, from the state the  *)
(* buffers have when the timed loop starts (A = 2, B = 2, C = 0 after      *)
(* initialization and warm-up) in a run without argument, for every team   *)
(* size and both builds.                                                   *)
(***************************************************************************)
ValueBlock(n, v) == [st |-> "ok", mem |-> [x \in 1..n |-> v]]

InitCopy ==
    /\ pc = "kernel"
    /\ argc = 1 /\ argv1 = <<>>
    /\ team \in 1..MaxThreads
    /\ build \in {"mem", "reg"}
    /\ nthreads = team
    /\ array_size = STREAM_ARRAY_SIZE \div team
    /\ heap = HeapElems - 3 * team * array_size
    /\ clock = 4
    /\ stream_array_size = UL(STREAM_ARRAY_SIZE)
    /\ a = [w \in Team |-> ValueBlock(array_size, Rhs("warm", 0, 1, 1, 2, 0))]
    /\ b = [w \in Team |-> ValueBlock(array_size, 2)]
    /\ c = [w \in Team |-> ValueBlock(array_size, 0)]
    /\ i = array_size /\ k = 0 /\ j = 0
    /\ quantum = 1 /\ t = mysecond(1)
    /\ times = [kn \in Kernels |->
                  [it \in 0..(NTIMES - 1) |->
                      IF kn = 0 /\ it = 0 THEN mysecond(4) ELSE Indet]]
    /\ avgtime = [kn \in Kernels |-> Indet]
    /\ mintime = [kn \in Kernels |-> Indet]
    /\ maxtime = [kn \in Kernels |-> Indet]
    /\ bytes = [kn \in Kernels |-> ULToDouble(UL(0))]
    /\ bandwidth = [kn \in Kernels |-> NotPrinted]
    /\ inpar = FALSE
    /\ wpc = [w \in Team |-> "end"]
    /\ ireg = [w \in Team |-> array_size]
    /\ raced = FALSE /\ oob = FALSE /\ foreign = FALSE
    /\ iUsers = {}
    /\ slotWrites = [w \in Team |-> [a |-> 1, b |-> 1, c |-> 1]]
    /\ kbegun = [w \in Team |-> 0]
    /\ kdone = [w \in Team |-> 0]
    /\ wkern = [w \in Team |-> <<0, 0>>]
    /\ exitCode = 0 /\ errPrinted = FALSE
    /\ ci = 0 /\ t1 = 0 /\ t2 = 0 /\ minDelta = 0
    /\ timesfound = [n \in 0..(M - 1) |-> Indet]
    /\ res = 1 /\ samples = 0

\* The Copy region is entered a second time, straight after its first
\* join; the second run is followed whatever happened in the first.
CopyAgain ==
    /\ pc = "kend" /\ j = 0
    /\ \A w \in Team : kdone[w] = 1
    /\ pc' = "kernel"
    /\ raced' = FALSE
    /\ UNCHANGED <<mainVars, tickVars, histVars, heap, clock,
                   stream_array_size, nthreads, array_size, bufVars, i, k, j,
                   quantum, t, times, statVars, teamVars, oob, foreign,
                   slotWrites, exitCode, errPrinted>>

NextCopy ==
    \/ Fork
    \/ Join
    \/ \E w \in Team : WStart(w)
    \/ \E w \in Team : WTest(w)
    \/ \E w \in Team : WBody(w)
    \/ \E w \in Team : WInc(w)
    \/ CopyAgain

SpecCopy == InitCopy /\ [][NextCopy]_vars

(***************************************************************************)
(* Properties.                                                             *)
(***************************************************************************)
Idx == IF array_size > 0 THEN 0..(array_size - 1) ELSE {}

Slots == 0..(nthreads - 1)

\* Position of timed kernel <<k, j>> in the run: 4 * k + j.
SeqNo == 4 * k + j

\* C1: in every iteration the four kernels run in the order Copy, Scale,
\* Add, Triad without overlap: the n-th timed kernel a worker begins is
\* kernel (n-1) mod 4 of iteration (n-1) div 4, and it begins it only when
\* every worker has finished the n-1 kernels before it.
KernelsStrictlyOrdered ==
    \A w \in Team :
        kbegun[w] > 0 =>
            /\ wkern[w] = <<(kbegun[w] - 1) \div 4, (kbegun[w] - 1) % 4>>
            /\ wkern[w][1] < NTIMES
            /\ \A u \in Team : kdone[u] >= kbegun[w] - 1

\* A worker of a team of two is inside the Copy of iteration 1 while the
\* other one has not begun it yet.
KernelsStrictlyOrdered_witness ==
    /\ team = 2 /\ pc = "kernel" /\ inpar
    /\ \E w \in Team : /\ kbegun[w] = 5 /\ Active(w)
                       /\ \E u \in Team : kbegun[u] = 4 /\ wpc[u] = "start"

\* C2: when the initialization region has joined, every element of every
\* thread's buffers holds A = 1.0, B = 2.0, C = 0.0.
InitWritesEveryElement ==
    pc = "warm_t0" =>
        \A w \in Slots : \A x \in Idx :
            /\ Elem(a[w], x) = 1
            /\ Elem(b[w], x) = 2
            /\ Elem(c[w], x) = 0

\* C3: when the region of a kernel has joined, every destination element
\* holds the kernel's formula of the source elements.
KernelPostcondition ==
    pc = "kend" =>
        \A w \in Slots : \A x \in Idx :
            CASE j = 0 -> Elem(c[w], x) = Elem(a[w], x)
              [] j = 1 -> Elem(b[w], x) = VMul(3, Elem(c[w], x))
              [] j = 2 -> Elem(c[w], x) = VAdd(Elem(a[w], x), Elem(b[w], x))
              [] j = 3 -> Elem(a[w], x) =
                            VAdd(Elem(b[w], x), VMul(3, Elem(c[w], x)))

\* C4: no location is accessed by two workers inside one parallel region:
\* at most one worker uses any variable of main, and no worker touches a
\* buffer slot other than its own.
NoDataRace == Cardinality(iUsers) <= 1 /\ ~foreign

\* C5: with total_elements = 8 and two threads array_size is 4 and, after
\* the first Copy, Scale, Add, Triad pass, every element has A = 15.0,
\* B = 3.0, C = 4.0.
EndToEndEightByTwo ==
    (argc = 2 /\ argv1 = <<"8">> /\ nthreads = 2
       /\ pc = "kstart" /\ k = 1 /\ j = 0) =>
        /\ array_size = 4
        /\ \A w \in Slots : \A x \in Idx :
              /\ Elem(a[w], x) = 15
              /\ Elem(b[w], x) = 3
              /\ Elem(c[w], x) = 4

\* C6: a failed allocation is fatal before anything else runs: while some
\* buffer pointer is null the program is still in the allocation region or
\* has exited with an error.
AllocFailed ==
    \E w \in DOMAIN a : a[w].st = "null" \/ b[w].st = "null" \/ c[w].st = "null"

AllocFailureIsFatal ==
    AllocFailed => \/ pc = "alloc"
                   \/ pc = "exit_error" /\ errPrinted /\ exitCode # 0

\* The decimal digits an argument starts with, after white space and sign.
RECURSIVE LeadingDigits(_)
LeadingDigits(s) == IF s = <<>> \/ ~IsDigit(Head(s)) THEN <<>>
                    ELSE <<Head(s)>> \o LeadingDigits(Tail(s))

\* The argument is non-numeric or denotes a value below 1.
InvalidArg(s) ==
    LET s0 == SkipSpace(s)
        s1 == IF s0 # <<>> /\ Head(s0) \in {"-", "+"} THEN Tail(s0) ELSE s0
        ds == LeadingDigits(s1)
    IN  \/ ds = <<>>
        \/ s0 # <<>> /\ Head(s0) = "-"
        \/ \A n \in 1..Len(ds) : ds[n] = "0"

\* C7: an invalid single argument ends the program with a message and a
\* nonzero exit code, with no buffer allocated and no region run.
InvalidArgRejected ==
    (argc = 2 /\ InvalidArg(argv1) /\ pc # "parse") =>
        /\ pc = "exit_error" /\ errPrinted /\ exitCode # 0
        /\ a = <<>> /\ b = <<>> /\ c = <<>> /\ heap = HeapElems
        /\ ~inpar /\ \A w \in Team : wpc[w] = "idle"

\* C8: for total_elements >= thread_count, array_size is the floor of
\* total_elements / thread_count and every allocated buffer has exactly
\* array_size elements.
ArraySizeIsFloor ==
    (pc \notin {"parse", "exit_error", "threads", "size"}
       /\ ~ULIsZero(ULDiv(stream_array_size, nthreads))) =>
        /\ ULFitsInt(ULDiv(stream_array_size, nthreads))
        /\ array_size = ULToInt(ULDiv(stream_array_size, nthreads))
        /\ \A w \in Slots :
              /\ a[w].st = "ok" => Len(a[w].mem) = array_size
              /\ b[w].st = "ok" => Len(b[w].mem) = array_size
              /\ c[w].st = "ok" => Len(c[w].mem) = array_size

\* C10: every write to the timing table happens outside the parallel
\* regions; the start stamp of a kernel is taken before any worker has
\* begun that kernel and its end stamp after every worker has finished it.
TimestampsBracketKernel ==
    [][times' # times =>
          /\ ~inpar
          /\ \A w \in Team : wpc[w] \in {"idle", "end"}
          /\ pc = "kstart" => \A w \in Team : kbegun[w] = SeqNo
          /\ pc = "kend" => \A w \in Team : kdone[w] = SeqNo + 1]_vars

\* The duration of the Triad of iteration 0 has been recorded after a team
\* of two ran it.
TimestampsBracketKernel_witness ==
    /\ team = 2 /\ pc = "kstart" /\ k = 1
    /\ times[3][0] # Indet
    /\ \A w \in Team : kdone[w] = 4

\* Minimum, maximum, exact sum and left-to-right double sum of
\* times[kn][1..n].
RECURSIVE RangeMin(_, _)
RangeMin(kn, n) == IF n = 1 THEN times[kn][1]
                   ELSE MIN(RangeMin(kn, n - 1), times[kn][n])

RECURSIVE RangeMax(_, _)
RangeMax(kn, n) == IF n = 1 THEN times[kn][1]
                   ELSE MAX(RangeMax(kn, n - 1), times[kn][n])

RECURSIVE RangeSum(_, _)
RangeSum(kn, n) == IF n = 1 THEN times[kn][1]
                   ELSE RangeSum(kn, n - 1) + times[kn][n]

RECURSIVE RangeFSum(_, _)
RangeFSum(kn, n) == IF n = 1 THEN times[kn][1]
                    ELSE FAdd(RangeFSum(kn, n - 1), times[kn][n])

Reduced == pc \in {"report", "done"}

\* C9 as stated: mintime, maxtime and avgtime are the minimum, the maximum
\* and the mean of times[kn][1..NTIMES-1] only, and
\* mintime <= avgtime <= maxtime.
StatsOrdered ==
    Reduced =>
        \A kn \in Kernels :
            /\ mintime[kn] = RangeMin(kn, NTIMES - 1)
            /\ maxtime[kn] = RangeMax(kn, NTIMES - 1)
            /\ avgtime[kn] = FDiv(RangeFSum(kn, NTIMES - 1), NTIMES - 1)
            /\ mintime[kn] <= avgtime[kn]
            /\ avgtime[kn] <= maxtime[kn]

\* C9 as amended: mintime and maxtime are the minimum and the maximum of
\* times[kn][1..NTIMES-1] only, avgtime is the double sum of that range,
\* accumulated left to right, divided by NTIMES-1, and mintime <= maxtime;
\* avgtime lies between them whenever the additions were exact.
StatsOverTimedRange ==
    Reduced =>
        \A kn \in Kernels :
            /\ mintime[kn] = RangeMin(kn, NTIMES - 1)
            /\ maxtime[kn] = RangeMax(kn, NTIMES - 1)
            /\ avgtime[kn] = FDiv(RangeFSum(kn, NTIMES - 1), NTIMES - 1)
            /\ mintime[kn] <= maxtime[kn]
            /\ RangeFSum(kn, NTIMES - 1) = RangeSum(kn, NTIMES - 1) =>
                  mintime[kn] <= avgtime[kn] /\ avgtime[kn] <= maxtime[kn]

\* The statistics are out, for a kernel whose first iteration was shorter
\* than every later one and whose later ones differ.
StatsOverTimedRange_witness ==
    /\ Reduced
    /\ \E kn \in Kernels : /\ times[kn][0] < mintime[kn]
                           /\ mintime[kn] < maxtime[kn]

(***************************************************************************)
(* Fair scheduling: the orchestrating thread and every worker of the team  *)
(* keep taking steps while they have one to take.                          *)
(***************************************************************************)
MainStep ==
    \/ Parse \/ QueryThreads \/ ComputeArraySize \/ Fork \/ Join
    \/ Calibrate \/ WarmStart \/ WarmEnd \/ KStart \/ KEnd
    \/ ReduceInit \/ ReduceStep \/ ReduceAvg \/ Report

WorkerStep(w) ==
    /\ w \in Team
    /\ WMalloc(w) \/ WStart(w) \/ WTest(w) \/ WBody(w) \/ WInc(w)

Fairness ==
    /\ WF_vars(MainStep)
    /\ \A w \in 0..(MaxThreads - 1) : WF_vars(WorkerStep(w))

\* Runs without a command-line argument (STREAM_ARRAY_SIZE elements), for
\* every team size and both builds.
InitFair == Init /\ argc = 1

\* Runs without a command-line argument of the build with the packed
\* allocator, for every team size.
InitPacked == InitWith({"packed"}) /\ argc = 1

SpecPacked == InitPacked /\ [][Next]_vars

SpecFair == InitFair /\ [][Next]_vars /\ Fairness

\* The allocation region has joined with every buffer allocated, on a
\* command line without an invalid argument.
AllocSucceeded ==
    /\ pc = "calibrate"
    /\ argc = 2 => ~InvalidArg(argv1)
    /\ \A w \in Slots : a[w].st = "ok" /\ b[w].st = "ok" /\ c[w].st = "ok"

\* The report is reached after exactly NTIMES iterations of every worker,
\* with a duration recorded in each of the 4 * NTIMES cells.
ReportedAll ==
    /\ pc = "report"
    /\ \A w \in Team : kbegun[w] = 4 * NTIMES /\ kdone[w] = 4 * NTIMES
    /\ \A kn \in Kernels : \A it \in 0..(NTIMES - 1) : times[kn][it] # Indet

\* C11: once the inputs are valid and allocation has succeeded, under fair
\* scheduling the program eventually reaches the report having run exactly
\* NTIMES iterations with NTIMES durations per kernel.  (A run that is not
\* followed beyond the join of a raced region is counted in the claim's
\* favour.)
RunsToReport ==
    AllocSucceeded ~> (ReportedAll \/ (raced /\ ~inpar /\ pc # "crashed"))

\* C12: the report's bandwidth of every kernel is bytes_moved / mintime,
\* where mintime is the minimum of the timed range and bytes_moved is
\* exactly 2 * S * E for Copy and Scale and 3 * S * E for Add and Triad, with
\* S = array_size * thread_count (a count of elements) and E = BytesPerWord.
BandwidthFromMinTime ==
    pc = "done" =>
        \A kn \in Kernels :
            /\ array_size >= 0
            /\ bytes[kn] = ULMul(ULMul(UL(array_size),
                                       Arrays(kn) * BytesPerWord),
                                 nthreads) \o <<0>>
            /\ bandwidth[kn] = Quotient(bytes[kn], RangeMin(kn, NTIMES - 1))

\* Stores a worker at position p of the allocation region has made into
\* its slots of a, b and c.
SlotsDoneAt(p) ==
    CASE p = "start" -> [a |-> 0, b |-> 0, c |-> 0]
      [] p = "mb"    -> [a |-> 1, b |-> 0, c |-> 0]
      [] p = "mc"    -> [a |-> 1, b |-> 1, c |-> 0]
      [] p = "end"   -> [a |-> 1, b |-> 1, c |-> 1]

BeforeAlloc == pc \in {"parse", "exit_error", "threads", "size"}

\* C13: each worker stores only into slot [tid] of a, b and c, every slot is
\* stored into exactly once over the run (never twice, and once when the
\* allocation region has joined), no slot is stored into by two workers, and
\* a worker reads the mapping (is at a statement of a loop body) only after
\* the allocation region has joined with every slot assigned.
MappingWrittenOnce ==
    /\ ~foreign
    /\ \A w \in Team :
          /\ slotWrites[w].a <= 1 /\ slotWrites[w].b <= 1 /\ slotWrites[w].c <= 1
          /\ BeforeAlloc \/ (pc = "alloc" /\ ~inpar /\ wpc[w] = "idle") =>
                slotWrites[w] = SlotsDoneAt("start")
          /\ pc = "alloc" /\ inpar => slotWrites[w] = SlotsDoneAt(wpc[w])
          /\ ~BeforeAlloc /\ pc # "alloc" => slotWrites[w] = SlotsDoneAt("end")
          /\ wpc[w] \in {"s1", "s2", "s3"} =>
                /\ pc # "alloc"
                /\ \A u \in Team :
                      /\ slotWrites[u] = SlotsDoneAt("end")
                      /\ a[u] # Unset /\ b[u] # Unset /\ c[u] # Unset

\* A worker of a team of two reads its slot of the mapping in the
\* initialization loop, after both workers stored their three pointers.
MappingWrittenOnce_witness ==
    /\ team = 2 /\ pc = "init" /\ inpar
    /\ wpc[1] = "s2"
    /\ \A u \in Team : slotWrites[u] = SlotsDoneAt("end") /\ a[u].st = "ok"

\* Delta of line 364 for index n, clamped as in line 365, and the minimum
\* of the clamped differences of indices 1..n.
ClampedDelta(n) == MAX(ToUsec(FSub(timesfound[n], timesfound[n - 1])), 0)

RECURSIVE MinOfDeltas(_)
MinOfDeltas(n) == IF n = 1 THEN ClampedDelta(1)
                  ELSE MIN(MinOfDeltas(n - 1), ClampedDelta(n))

\* checktick has returned into main.
Calibrated == pc = "init"

\* The collection of the ticks: a tick is stored in the next free cell of
\* timesfound, one cell at a time, by the first sample that is at least a
\* microsecond past the reference sample t1, and by no earlier sample.
TicksCollected ==
    [][/\ timesfound' # timesfound =>
             /\ ci < M /\ timesfound[ci] = Indet
             /\ timesfound' = [timesfound EXCEPT ![ci] = t2']
             /\ FSub(t2', t1) >= UnitsPerUsec
       /\ (pc = "ct_t2" /\ FSub(t2', t1) >= UnitsPerUsec) =>
             timesfound' # timesfound]_vars

QuantumAtLeastOne ==
    /\ \A n \in 1..(M - 1) :
          timesfound[n] # Indet =>
              /\ FSub(timesfound[n], timesfound[n - 1]) >= UnitsPerUsec
              /\ ClampedDelta(n) >= 1
    /\ pc \in {"ct_min", "ct_ret"} \/ Calibrated => minDelta >= 1
    /\ Calibrated => quantum = minDelta /\ quantum >= 1

\* checktick has returned 1 for a timer of a quarter of a microsecond.
QuantumAtLeastOne_witness ==
    /\ Calibrated /\ res = 1
    /\ minDelta = 1 /\ quantum = 1
    /\ \E n \in 1..(M - 1) :
          FSub(timesfound[n], timesfound[n - 1]) < 2 * UnitsPerUsec

\* The second of two Copy runs in a row is executing.
SecondCopy == pc = "kernel" /\ j = 0 /\ \A w \in Team : kdone[w] >= 1

\* C15: Copy is idempotent: while Copy runs a second time straight after a
\* completed Copy, no element of A, B or C changes.
CopyIsIdempotent ==
    [][SecondCopy => bufVars' = bufVars]_vars

\* Values tried for -DNTIMES=<n>.
ConfigValues == (-1)..(NTIMES_CONFIG + 1)

\* C16: the effective NTIMES is 10 when NTIMES is not configured or is
\* configured to a value <= 1, and the configured value otherwise; hence
\* NTIMES >= 2, the timing table has a column 1, and every cell the reducer
\* reads (times[kn][1], then times[kn][k] for k = 2..NTIMES-1) is inside
\* the table.
NTimesClamped ==
    /\ \A n \in ConfigValues :
          /\ NTimesOf(FALSE, n) = 10
          /\ n <= 1 => NTimesOf(TRUE, n) = 10
          /\ n > 1 => NTimesOf(TRUE, n) = n
          /\ NTimesOf(TRUE, n) >= 2
    /\ NTIMES >= 2
    /\ \A kn \in Kernels :
          /\ DOMAIN times[kn] = 0..(NTIMES - 1)
          /\ 1 \in DOMAIN times[kn]
          /\ pc = "reduce_loop" => k >= 2 /\ k \in DOMAIN times[kn]

\* The reducer has read column 1 of the table and is about to read
\* column 2.
NTimesClamped_witness ==
    /\ pc = "reduce_loop" /\ k = 2
    /\ \A kn \in Kernels : mintime[kn] = times[kn][1] /\ mintime[kn] # Indet

\* C17: every buffer access of a worker in the initialization, warm-up and
\* kernel loops uses an index i with 0 <= i < array_size: no access outside
\* a buffer has happened.
IndexInBounds == ~oob

\* C18: each kernel changes only its destination buffer of the executing
\* thread: while Copy or Add runs no A or B changes, while Scale runs no A
\* or C changes, while Triad runs no B or C changes, and a step of worker w
\* never changes a buffer of another thread.
KernelFrame ==
    [][(pc = "kernel" /\ inpar) =>
          /\ j \in {0, 2} => a' = a /\ b' = b
          /\ j = 1 => a' = a /\ c' = c
          /\ j = 3 => b' = b /\ c' = c
          /\ \A w \in Team : \A u \in Team \ {w} :
                wpc'[w] # wpc[w] =>
                    a'[u] = a[u] /\ b'[u] = b[u] /\ c'[u] = c[u]]_vars

RECURSIVE Pow15(_)
Pow15(n) == IF n = 0 THEN 1 ELSE 15 * Pow15(n - 1)

\* C19: when the Triad of timed iteration k has joined (the end of
\* iteration k), every element of every thread has A = 2 * 15^(k+1),
\* B = 6 * 15^k and C = 8 * 15^k.
ValuesAfterIteration ==
    (pc = "kend" /\ j = 3) =>
        \A w \in Slots : \A x \in Idx :
            /\ Elem(a[w], x) = 2 * Pow15(k + 1)
            /\ Elem(b[w], x) = 6 * Pow15(k)
            /\ Elem(c[w], x) = 8 * Pow15(k)

====
